---- MODULE Spec2Model ----
(***************************************************************************)
(* Geode Mod Creator: the project configuration (modData), the file-tree   *)
(* store (generatedFiles), the regeneration effect, manual edits and the   *)
(* AI chat handler of src/App.tsx, with the generator of                   *)
(* src/services/modGenerator.ts.                                           *)
(***************************************************************************)
EXTENDS Integers, Sequences, FiniteSets, TLC

VARIABLES
    ai,              \* App.tsx:167  the GoogleGenAI client is configured (API key present)
    modData,         \* App.tsx:126  the project configuration
    generatedFiles,  \* App.tsx:159  the file-tree store: Null or a map path -> content
    effect,          \* the regeneration effect: "idle", "due" (deps changed by an event), "rerun" (deps changed by the effect's own write)
    chatStep,        \* position of the one handleSendMessage call in flight
    toolCall,        \* the asset tool call being served (fileName, image bytes)
    chatHistory,     \* App.tsx:177
    aiError,         \* App.tsx:170
    year,            \* modGenerator.ts:411  what new Date().getFullYear() returns
    zip,             \* App.tsx:259  the archive handleDownload built last
    requestIsStale,  \* the configuration was changed since the handleSendMessage call in flight captured its render
    idError,         \* ModForm.tsx:100  the identifier hint
    selectedFile,    \* CodeWorkspace.tsx:26  the path open in the editor, <<>> for ''
    reader,          \* ModForm.tsx:126  the FileReader of the logo upload in flight
    last             \* history: the operation that produced this state

vars == <<ai, modData, generatedFiles, effect, chatStep, toolCall,
          chatHistory, aiError, year, zip, requestIsStale, idError, selectedFile, reader, last>>

----------------------------------------------------------------------------
(* Bounds *)

\* longest files array in one AI response
MaxBatch == 2
\* chat messages the user may have in the transcript before sending another
MaxChat == 1
\* longest text typed into the dependencies field
MaxDeps == 4
\* most custom settings the form lists
MaxSettings == 2
\* longest array of settings one AI suggestion answers with
MaxSuggestions == 1
\* times the calendar year changes while the page is open
MaxYears == 1
\* runs of the regeneration effect in a row that are told apart
MaxRuns == 2

----------------------------------------------------------------------------
(* Values *)

\* a path is the sequence of its '/'-separated segments
\* ("src/main.cpp" is <<"src", "main.cpp">>); the empty path is the empty string
NoFiles == [p \in {} |-> ""]

\* useState<GeneratedFiles | null>(null): the store is null, or an object
Null == [present |-> FALSE, files |-> NoFiles]
Tree(files) == [present |-> TRUE, files |-> files]

\* modData.logo === undefined
NoLogo == <<>>

\* a data URL "data:image/png;base64,<payload>" as its two comma-separated parts
LogoUrl(payload) == <<"data:image/png;base64", payload>>

LogoPayloads == {"TE9HTw"}

IdValues == {"", "com.dev.mod"}
NameValues == {"", "Mod"}
DeveloperValues == {"", "Dev"}

\* paths and contents a manual edit is tried with
EditPaths == {<<"mod.json">>, <<"assets", ".gitkeep">>, <<"assets", "extra.png">>, <<"src", "notes.txt">>}
EditContents == {"", "edited"}

\* filePath / fileContent values of the entries of an AI file batch ("" = falsy)
BatchPaths == {<<>>, <<"src", "Hook.cpp">>, <<"assets", "extra.png">>}
BatchContents == {"", "QUJD"}

----------------------------------------------------------------------------
(* Strings as character sequences, for the code's split / trim / replace *)

RECURSIVE Join(_)
\* the string spelled by a sequence of one-character strings
Join(cs) == IF cs = <<>> THEN "" ELSE Head(cs) \o Join(Tail(cs))

RECURSIVE PathText(_)
\* a path written out, its segments joined by '/'
PathText(path) ==
    IF path = <<>> THEN ""
    ELSE IF Len(path) = 1 THEN path[1]
    ELSE path[1] \o "/" \o PathText(Tail(path))

\* a || b on strings: the empty string is falsy
OrElse(a, b) == IF a = "" THEN b ELSE a

UpperCase == <<"A", "B", "C", "D", "E", "F", "G", "H", "I", "J", "K", "L", "M",
               "N", "O", "P", "Q", "R", "S", "T", "U", "V", "W", "X", "Y", "Z">>
LowerCase == <<"a", "b", "c", "d", "e", "f", "g", "h", "i", "j", "k", "l", "m",
               "n", "o", "p", "q", "r", "s", "t", "u", "v", "w", "x", "y", "z">>
Digits == {"0", "1", "2", "3", "4", "5", "6", "7", "8", "9"}

Range(f) == {f[i] : i \in DOMAIN f}

\* c.toLowerCase()
ToLower(c) ==
    IF c \in Range(UpperCase)
    THEN LowerCase[CHOOSE i \in DOMAIN UpperCase : UpperCase[i] = c] ELSE c

RECURSIVE TrimStart(_)
TrimStart(cs) == IF cs # <<>> /\ Head(cs) = " " THEN TrimStart(Tail(cs)) ELSE cs

RECURSIVE TrimEnd(_)
TrimEnd(cs) ==
    IF cs # <<>> /\ cs[Len(cs)] = " " THEN TrimEnd(SubSeq(cs, 1, Len(cs) - 1)) ELSE cs

\* cs.trim()
Trim(cs) == TrimEnd(TrimStart(cs))

RECURSIVE Split(_, _)
\* cs.split(sep): the pieces between the separators
Split(cs, sep) ==
    LET hits == {i \in DOMAIN cs : cs[i] = sep} IN
    IF hits = {} THEN <<cs>>
    ELSE LET i == CHOOSE j \in hits : \A k \in hits : j <= k IN
         <<SubSeq(cs, 1, i - 1)>> \o Split(SubSeq(cs, i + 1, Len(cs)), sep)

\* cs.split(',').map(t => t.trim()).filter(t => t)
Tokens(cs) ==
    LET pieces == Split(cs, ",") IN
    SelectSeq([i \in DOMAIN pieces |-> Trim(pieces[i])], LAMBDA t : t # <<>>)

\* cs.lastIndexOf(c), counted from 0; -1 when c does not occur
LastIndexOf(cs, c) ==
    LET hits == {i \in DOMAIN cs : cs[i] = c} IN
    IF hits = {} THEN -1 ELSE (CHOOSE i \in hits : \A j \in hits : j <= i) - 1

----------------------------------------------------------------------------
(* JavaScript values of a setting's default: boolean | number | string *)

True == <<"t", "r", "u", "e">>
False == <<"f", "a", "l", "s", "e">>
NaN == <<"N", "a", "N">>
Zero == <<"0">>

\* a value with its typeof and the text String(value) gives
Bool(b) == [t |-> "boolean", v |-> IF b THEN True ELSE False]
Num(cs) == [t |-> "number", v |-> cs]
Str(cs) == [t |-> "string", v |-> cs]
Undefined == [t |-> "undefined", v |-> <<>>]

\* !!value
ToBoolean(value) ==
    CASE value.t = "boolean" -> value.v = True
      [] value.t = "number" -> value.v \notin {Zero, NaN}
      [] value.t = "string" -> value.v # <<>>
      [] OTHER -> FALSE

RECURSIVE DigitPrefix(_)
\* the longest prefix of cs made of decimal digits
DigitPrefix(cs) ==
    IF cs # <<>> /\ Head(cs) \in Digits THEN <<Head(cs)>> \o DigitPrefix(Tail(cs)) ELSE <<>>

RECURSIVE StripLeadingZeros(_)
StripLeadingZeros(ds) ==
    IF Len(ds) > 1 /\ Head(ds) = "0" THEN StripLeadingZeros(Tail(ds)) ELSE ds

RECURSIVE StripTrailingZeros(_)
StripTrailingZeros(ds) ==
    IF ds # <<>> /\ ds[Len(ds)] = "0" THEN StripTrailingZeros(SubSeq(ds, 1, Len(ds) - 1)) ELSE ds

\* the number with the given sign, integer digits and fraction digits, as
\* JavaScript prints it
NumberText(negative, int, frac) ==
    LET i == StripLeadingZeros(IF int = <<>> THEN Zero ELSE int)
        f == StripTrailingZeros(frac)
        magnitude == IF f = <<>> THEN i ELSE i \o <<".">> \o f
    IN IF magnitude = Zero THEN Zero
       ELSE IF negative THEN <<"-">> \o magnitude ELSE magnitude

\* parseInt(cs, 10)
parseInt(cs) ==
    LET t == TrimStart(cs)
        negative == t # <<>> /\ Head(t) = "-"
        body == IF t # <<>> /\ Head(t) \in {"-", "+"} THEN Tail(t) ELSE t
        int == DigitPrefix(body)
    IN IF int = <<>> THEN Num(NaN) ELSE Num(NumberText(negative, int, <<>>))

\* parseFloat(cs), without exponents
parseFloat(cs) ==
    LET t == TrimStart(cs)
        negative == t # <<>> /\ Head(t) = "-"
        body == IF t # <<>> /\ Head(t) \in {"-", "+"} THEN Tail(t) ELSE t
        int == DigitPrefix(body)
        rest == SubSeq(body, Len(int) + 1, Len(body))
        frac == IF rest # <<>> /\ Head(rest) = "." THEN DigitPrefix(Tail(rest)) ELSE <<>>
    IN IF int = <<>> /\ frac = <<>> THEN Num(NaN) ELSE Num(NumberText(negative, int, frac))

\* number || 0
OrZero(number) == IF ToBoolean(number) THEN number ELSE Num(Zero)

----------------------------------------------------------------------------
(* src/services/modGenerator.ts *)

PlatformOrder == <<"win", "mac", "android", "ios">>

\* a gd object with a member for every platform
GdOfAllPlatforms(data) == [p \in Range(PlatformOrder) |-> OrElse(data.gdVersion, "*")]

\* const gd = {}; if (data.platforms.win) gd.win = data.gdVersion || "*"; ...
Gd(data) ==
    [p \in {q \in Range(PlatformOrder) : data.platforms[q]} |-> OrElse(data.gdVersion, "*")]

RECURSIVE GdMap(_, _)
\* the members of gd as JSON.stringify writes them, in insertion order
GdMap(data, i) ==
    IF i > Len(PlatformOrder) THEN ""
    ELSE (IF PlatformOrder[i] \in DOMAIN Gd(data)
            THEN PlatformOrder[i] \o ":" \o Gd(data)[PlatformOrder[i]] \o ";"
            ELSE "")
         \o GdMap(data, i + 1)

\* the dependency object with the version split at the first '@'
DependencySplitAtFirstAt(depString) ==
    LET lastAt == IF "@" \in Range(depString)
                  THEN (CHOOSE i \in DOMAIN depString :
                          depString[i] = "@" /\ \A j \in 1..(i - 1) : depString[j] # "@") - 1
                  ELSE -1 IN
    IF lastAt > 0
    THEN LET version == SubSeq(depString, lastAt + 2, Len(depString)) IN
         [id |-> SubSeq(depString, 1, lastAt), required |-> TRUE,
          version |-> IF version = <<>> THEN <<"*">> ELSE version]
    ELSE [id |-> depString, required |-> TRUE, version |-> <<"*">>]

\* the object the last map() of the dependencies chain returns for a token
Dependency(depString) ==
    LET lastAt == LastIndexOf(depString, "@") IN
    IF lastAt > 0
    THEN LET version == SubSeq(depString, lastAt + 2, Len(depString)) IN
         [id |-> SubSeq(depString, 1, lastAt), required |-> TRUE,
          version |-> IF version = <<>> THEN <<"*">> ELSE version]
    ELSE [id |-> depString, required |-> TRUE, version |-> <<"*">>]

\* const dependencies = data.dependencies.split(',').map(trim).filter(...).map(...)
Dependencies(data) ==
    LET tokens == Tokens(data.dependencies) IN
    [i \in DOMAIN tokens |-> Dependency(tokens[i])]

RECURSIVE DependenciesText(_)
DependenciesText(deps) ==
    IF deps = <<>> THEN ""
    ELSE "{id:" \o Join(Head(deps).id) \o ",required:true,version:"
         \o Join(Head(deps).version) \o "}" \o DependenciesText(Tail(deps))

RECURSIVE TagsText(_)
TagsText(tags) ==
    IF tags = <<>> THEN "" ELSE Join(Head(tags)) \o ";" \o TagsText(Tail(tags))

\* the switch on setting.type of generateModJson
CoercedDefault(setting) ==
    CASE setting.type = "bool" -> Bool(ToBoolean(setting.default))
      [] setting.type = "int" -> OrZero(parseInt(setting.default.v))
      [] setting.type = "float" -> OrZero(parseFloat(setting.default.v))
      [] setting.type = "string" -> Str(setting.default.v)
      [] OTHER -> Undefined

\* obj[key] = value on an object kept as the sequence of its members
SetMember(members, key, value) ==
    IF \E i \in DOMAIN members : members[i].key = key
    THEN [i \in DOMAIN members |->
            IF members[i].key = key THEN [key |-> key, value |-> value] ELSE members[i]]
    ELSE Append(members, [key |-> key, value |-> value])

RECURSIVE ModJsonSettings(_, _)
\* data.settings.forEach(setting => { modJson.settings[setting.key] = {...} })
ModJsonSettings(members, settings) ==
    IF settings = <<>> THEN members
    ELSE LET setting == Head(settings) IN
         ModJsonSettings(
            SetMember(members, setting.key,
                      [name |-> setting.name, description |-> setting.description,
                       type |-> setting.type, default |-> CoercedDefault(setting)]),
            Tail(settings))

RECURSIVE SettingsText(_)
SettingsText(members) ==
    IF members = <<>> THEN ""
    ELSE LET m == Head(members) IN
         m.key \o ":{name:" \o m.value.name \o ",description:" \o m.value.description
         \o ",type:" \o m.value.type
         \o (IF m.value.default.t = "undefined" THEN ""
             ELSE ",default:" \o m.value.default.t \o " " \o Join(m.value.default.v))
         \o "}" \o SettingsText(Tail(members))

generateModJson(data) ==
    "{geode:" \o OrElse(data.geodeVersion, "2.0.0-beta.26")
    \o ",gd:{" \o GdMap(data, 1) \o "}"
    \o ",id:" \o OrElse(data.id, "com.developer.modname")
    \o ",name:" \o OrElse(data.name, "My Awesome Mod")
    \o ",version:" \o OrElse(data.version, "v1.0.0")
    \o ",developer:" \o OrElse(data.developer, "Your Name")
    \o ",description:" \o OrElse(data.description, "A new mod for Geometry Dash")
    \o (IF data.logo # NoLogo THEN ",icon:logo.png" ELSE "")
    \o (IF data.repository # "" THEN ",repository:" \o data.repository ELSE "")
    \o (IF data.providesApi THEN ",api:true" ELSE "")
    \o (IF data.earlyLoad THEN ",early-load:true" ELSE "")
    \o (IF data.tags # <<>> THEN ",tags:[" \o TagsText(Tokens(data.tags)) \o "]" ELSE "")
    \o (IF data.dependencies # <<>> /\ Dependencies(data) # <<>>
        THEN ",dependencies:[" \o DependenciesText(Dependencies(data)) \o "]" ELSE "")
    \o (IF data.settings # <<>>
        THEN ",settings:{" \o SettingsText(ModJsonSettings(<<>>, data.settings)) \o "}" ELSE "")
    \o "}"

\* the lines under SOURCES and under RESOURCES of the build script
CMakeSources == <<<<"resources", "main.cpp">>>>
CMakeResources == <<<<"assets">>>>

RECURSIVE CMakeLines(_)
CMakeLines(paths) ==
    IF paths = <<>> THEN "" ELSE " " \o PathText(Head(paths)) \o CMakeLines(Tail(paths))

generateCMakeLists(data) ==
    "add_geode_mod(" \o OrElse(data.id, "com.developer.modname")
    \o " VERSION " \o OrElse(data.version, "v1.0.0")
    \o " ID " \o OrElse(data.id, "com.developer.modname")
    \o " SOURCES" \o CMakeLines(CMakeSources)
    \o " RESOURCES" \o CMakeLines(CMakeResources) \o ")"

generateMenuLayerCpp(data) ==
    "$modify(MyMenuLayer, MenuLayer) Hello from " \o OrElse(data.name, "My Awesome Mod")

generatePlayLayerCpp(data) ==
    "$modify(PlayLayer) onQuit You died!"

\* data.settings.find(s => s.type === 'bool'): its position, 0 when there is none
FirstBoolSetting(settings) ==
    LET hits == {i \in DOMAIN settings : settings[i].type = "bool"} IN
    IF hits = {} THEN 0 ELSE CHOOSE i \in hits : \A j \in hits : i <= j

\* the body of the menu hook: guarded by the first bool setting, or not guarded
menuLayerModification(data) ==
    LET first == FirstBoolSetting(data.settings) IN
    IF first # 0
    THEN [conditional |-> TRUE, key |-> data.settings[first].key]
    ELSE [conditional |-> FALSE, key |-> ""]

\* the fragment the switch on setting.type appends for the setting at index
\* (counted from 0); nothing for a type that is none of the four cases
SettingFragment(setting, index, modId) ==
    CASE setting.type = "bool" ->
           <<[shape |-> "toggle", index |-> index, name |-> setting.name,
              modId |-> modId, key |-> setting.key]>>
      [] setting.type = "int" ->
           <<[shape |-> "int-input", index |-> index, name |-> setting.name,
              modId |-> modId, key |-> setting.key]>>
      [] setting.type = "float" ->
           <<[shape |-> "float-input", index |-> index, name |-> setting.name,
              modId |-> modId, key |-> setting.key]>>
      [] setting.type = "string" ->
           <<[shape |-> "text-input", index |-> index, name |-> setting.name,
              modId |-> modId, key |-> setting.key]>>
      [] OTHER -> <<>>

\* the fragment for an empty settings list
NoSettingsFragment ==
    [shape |-> "no-settings", index |-> 0, name |-> "This mod has no settings.",
     modId |-> "", key |-> ""]

RECURSIVE SettingFragments(_, _, _)
\* data.settings.forEach((setting, index) => { switch (setting.type) ... })
SettingFragments(settings, index, modId) ==
    IF index >= Len(settings) THEN <<>>
    ELSE SettingFragment(settings[index + 1], index, modId)
         \o SettingFragments(settings, index + 1, modId)

\* let settingsUiGeneration = ''; if (data.settings.length > 0) ... else ...
settingsUiGeneration(data) ==
    IF Len(data.settings) > 0
    THEN SettingFragments(data.settings, 0, OrElse(data.id, "com.developer.modname"))
    ELSE <<NoSettingsFragment>>

RECURSIVE FragmentsText(_)
FragmentsText(fragments) ==
    IF fragments = <<>> THEN ""
    ELSE LET f == Head(fragments) IN
         " " \o f.shape \o "_" \o ToString(f.index) \o "(" \o f.name \o "," \o f.modId
         \o "," \o f.key \o ")" \o FragmentsText(Tail(fragments))

generateSettingsLayerCpp(data) ==
    LET hook == menuLayerModification(data) IN
    "$modify(MyMenuLayerWithSettings, MenuLayer) "
    \o (IF hook.conditional THEN "if getSettingValue<bool>(" \o hook.key \o ") " ELSE "")
    \o "Hello from " \o OrElse(data.name, "My Mod")
    \o " createSettingsPopup(" \o OrElse(data.id, "com.developer.modname") \o ")"
    \o FragmentsText(settingsUiGeneration(data))

\* a dispatch that has no case for the settings template
generateMainCppWithoutSettingsCase(data) ==
    CASE data.cppTemplate = "playlayer" -> generatePlayLayerCpp(data)
      [] OTHER -> generateMenuLayerCpp(data)

generateMainCpp(data) ==
    CASE data.cppTemplate = "playlayer" -> generatePlayLayerCpp(data)
      [] data.cppTemplate = "settings" -> generateSettingsLayerCpp(data)
      [] OTHER -> generateMenuLayerCpp(data)

generateCIWorkflow == "name: Build Mod"

generateReadme(data) ==
    "# " \o OrElse(data.name, "My Awesome Mod")
    \o " by " \o OrElse(data.developer, "Your Name")
    \o " " \o OrElse(data.description, "A brief summary of what your mod does.")

generateGitIgnore == "build/"

\* `Copyright (c) ${year} ${developer}` with year = new Date().getFullYear()
generateLicense(data) ==
    "MIT License Copyright (c) " \o ToString(year) \o " " \o OrElse(data.developer, "Your Name")

generateContributingMd(data) ==
    "# Contributing to " \o OrElse(data.name, "this project")
    \o " issues: " \o (IF data.repository # "" THEN data.repository \o "/issues" ELSE "#")

----------------------------------------------------------------------------
(* src/App.tsx: the store *)

\* path.startsWith('assets/')
StartsWithAssets(path) == Len(path) >= 2 /\ path[1] = "assets"

LogoPath == <<"assets", "logo.png">>
GitkeepPath == <<"assets", ".gitkeep">>

\* the condition with its last test dropped
IsKeptAssetButLogoOnly(path) ==
    StartsWithAssets(path) /\ path = LogoPath

\* a condition that also keeps what is under docs/
IsKeptAssetOrDocs(path) ==
    Len(path) >= 2 /\ path[1] \in {"assets", "docs"} /\ path # LogoPath /\ path # GitkeepPath

\* the condition of the loop "Keep existing generated assets"
IsKeptAsset(path) ==
    StartsWithAssets(path) /\ path # LogoPath /\ path # GitkeepPath

\* newFiles[k] = v
Put(m, k, v) == [p \in DOMAIN m \cup {k} |-> IF p = k THEN v ELSE m[p]]

\* delete newFiles[k]
Delete(m, k) == [p \in DOMAIN m \ {k} |-> m[p]]

\* the literal of generateFiles
BaseFiles(data) ==
    [p \in {<<"mod.json">>, <<"CMakeLists.txt">>, <<"src", "main.cpp">>, <<"README.md">>,
            <<".gitignore">>, <<"LICENSE">>, <<"CONTRIBUTING.md">>, GitkeepPath} |->
        CASE p = <<"mod.json">> -> generateModJson(data)
          [] p = <<"CMakeLists.txt">> -> generateCMakeLists(data)
          [] p = <<"src", "main.cpp">> -> generateMainCpp(data)
          [] p = <<"README.md">> -> generateReadme(data)
          [] p = <<".gitignore">> -> generateGitIgnore
          [] p = <<"LICENSE">> -> generateLicense(data)
          [] p = <<"CONTRIBUTING.md">> -> generateContributingMd(data)
          [] OTHER -> ""]

\* if (modData.includeCi) files['.github/workflows/main.yml'] = generateCIWorkflow()
WithCi(data, files) ==
    IF data.includeCi THEN Put(files, <<".github", "workflows", "main.yml">>, generateCIWorkflow)
    ELSE files

\* if (modData.logo) files['assets/logo.png'] = modData.logo.split(',')[1]
\* else if (files['assets/logo.png']) delete files['assets/logo.png']
WithLogo(data, files) ==
    IF data.logo # NoLogo THEN Put(files, LogoPath, data.logo[2])
    ELSE IF LogoPath \in DOMAIN files /\ files[LogoPath] # ""
         THEN Delete(files, LogoPath) ELSE files

RECURSIVE KeepAssets(_, _, _)
\* for (const path in generatedFiles) if (kept asset) files[path] = generatedFiles[path]
KeepAssets(files, prev, todo) ==
    IF todo = {} THEN files
    ELSE LET path == CHOOSE q \in todo : TRUE IN
         KeepAssets(IF IsKeptAsset(path) THEN Put(files, path, prev[path]) ELSE files,
                    prev, todo \ {path})

\* generateFiles that skips its last step when the CI workflow is included
generateFilesForgettingOnCi(data, prev) ==
    LET files == WithLogo(data, WithCi(data, BaseFiles(data))) IN
    IF prev.present /\ ~data.includeCi
    THEN KeepAssets(files, prev.files, DOMAIN prev.files) ELSE files

\* generateFiles that keeps the assets only of a store without the placeholder
generateFilesKeepingOnce(data, prev) ==
    LET files == WithLogo(data, WithCi(data, BaseFiles(data))) IN
    IF prev.present /\ GitkeepPath \notin DOMAIN prev.files
    THEN KeepAssets(files, prev.files, DOMAIN prev.files) ELSE files

\* the tree generateFiles hands to setGeneratedFiles; prev is the store of the
\* render the callback was created in
generateFiles(data, prev) ==
    LET files == WithLogo(data, WithCi(data, BaseFiles(data))) IN
    IF prev.present THEN KeepAssets(files, prev.files, DOMAIN prev.files) ELSE files

\* the test without the developer
RequiredCompleteWithoutDeveloper(data) == data.id # "" /\ data.name # ""

\* if (modData.id && modData.name && modData.developer)
RequiredComplete(data) == data.id # "" /\ data.name # "" /\ data.developer # ""

----------------------------------------------------------------------------
(* src/App.tsx: what the AI service answers *)

\* a member of a parsed object: undefined, a string, a number, or an array of
\* {filePath, fileContent} objects
Undef == [t |-> "undef", path |-> <<>>, s |-> "", items |-> <<>>]
StrMember(s) == [t |-> "str", path |-> <<>>, s |-> s, items |-> <<>>]
PathMember(path) == [t |-> "str", path |-> path, s |-> "", items |-> <<>>]
NumMember == [t |-> "num", path |-> <<>>, s |-> "7", items |-> <<>>]
ArrMember(items) == [t |-> "arr", path |-> <<>>, s |-> "", items |-> items]

\* what JSON.parse gives: a SyntaxError, null, a number, an array, or an object
Json(t, files, filePath, fileContent) ==
    [t |-> t, files |-> files, filePath |-> filePath, fileContent |-> fileContent]

FileObjects == [filePath : BatchPaths, fileContent : BatchContents]

RECURSIVE SeqsUpTo(_, _)
\* the sequences over S of length at most n
SeqsUpTo(S, n) ==
    IF n = 0 THEN {<<>>}
    ELSE LET shorter == SeqsUpTo(S, n - 1) IN
         shorter \cup {Append(q, x) : q \in shorter, x \in S}

Batches == SeqsUpTo(FileObjects, MaxBatch)

RECURSIVE ItemsText(_)
ItemsText(items) ==
    IF items = <<>> THEN ""
    ELSE "{filePath:" \o PathText(Head(items).filePath) \o ",fileContent:"
         \o Head(items).fileContent \o "}" \o ItemsText(Tail(items))

\* response.text together with the value JSON.parse has for it
Response(text, json) == [text |-> text, json |-> json]

TextResponses ==
    {Response("Hooks are declared with $modify.", Json("syntaxerror", Undef, Undef, Undef)),
     Response("null", Json("null", Undef, Undef, Undef)),
     Response("42", Json("num", Undef, Undef, Undef)),
     Response("[]", Json("arr", Undef, Undef, Undef)),
     Response("{answer:1}", Json("obj", Undef, Undef, Undef)),
     Response("{files:none}", Json("obj", StrMember("none"), Undef, Undef)),
     Response("{filePath:7,fileContent:QUJD}", Json("obj", Undef, NumMember, StrMember("QUJD")))}
    \cup {Response("{files:[" \o ItemsText(b) \o "]}", Json("obj", ArrMember(b), Undef, Undef)) :
            b \in Batches}
    \cup {Response("{filePath:" \o PathText(f.filePath) \o ",fileContent:" \o f.fileContent \o "}",
                   Json("obj", Undef, PathMember(f.filePath), StrMember(f.fileContent))) :
            f \in FileObjects}

NoResponse == Response("", Json("syntaxerror", Undef, Undef, Undef))

\* JavaScript truthiness of a member
Truthy(m) ==
    CASE m.t = "undef" -> FALSE
      [] m.t = "str" -> m.path # <<>> \/ m.s # ""
      [] OTHER -> TRUE

\* parsedJson.<member>: undefined on anything but an object (null throws before)
Member(json, name) ==
    IF json.t # "obj" THEN Undef
    ELSE CASE name = "files" -> json.files
           [] name = "filePath" -> json.filePath
           [] OTHER -> json.fileContent

\* the branches without the Array.isArray test
BranchWithoutArrayTest(resp) ==
    LET json == resp.json IN
    IF json.t = "syntaxerror" THEN "plain"
    ELSE IF json.t = "null" THEN "plain"
    ELSE IF Truthy(Member(json, "files")) THEN "files"
    ELSE IF /\ Truthy(Member(json, "filePath")) /\ Member(json, "filePath").t = "str"
            /\ Truthy(Member(json, "fileContent")) /\ Member(json, "fileContent").t = "str"
         THEN "single"
    ELSE "plain"

\* which branch of the try block of handleSendMessage handles the response:
\* "files", "single", or "plain" (the catch block)
Branch(resp) ==
    LET json == resp.json IN
    IF json.t = "syntaxerror" THEN "plain"
    ELSE IF json.t = "null" THEN "plain"
    ELSE IF Truthy(Member(json, "files")) /\ Member(json, "files").t = "arr" THEN "files"
    ELSE IF /\ Truthy(Member(json, "filePath")) /\ Member(json, "filePath").t = "str"
            /\ Truthy(Member(json, "fileContent")) /\ Member(json, "fileContent").t = "str"
         THEN "single"
    ELSE "plain"

\* if (file.filePath && file.fileContent)
EntryAccepted(file) == file.filePath # <<>> /\ file.fileContent # ""

RECURSIVE ApplyFiles(_, _)
\* parsedJson.files.forEach(file => { if (...) newFiles[file.filePath] = file.fileContent })
ApplyFiles(newFiles, items) ==
    IF items = <<>> THEN newFiles
    ELSE ApplyFiles(IF EntryAccepted(Head(items))
                      THEN Put(newFiles, Head(items).filePath, Head(items).fileContent)
                      ELSE newFiles,
                    Tail(items))

RECURSIVE AcceptedPaths(_)
\* the filePaths array the confirmation message joins
AcceptedPaths(items) ==
    IF items = <<>> THEN ""
    ELSE (IF EntryAccepted(Head(items)) THEN PathText(Head(items).filePath) \o ", " ELSE "")
         \o AcceptedPaths(Tail(items))

\* an updater that starts from the empty object
CopyOrEmptyAlwaysEmpty(prev) == NoFiles

\* const newFiles = prev ? { ...prev } : {}
CopyOrEmpty(prev) == IF prev.present THEN prev.files ELSE NoFiles

\* the updater of the multi-file branch
MergeFiles(prev, resp) == Tree(ApplyFiles(CopyOrEmpty(prev), resp.json.files.items))

\* the updater of the single-file branch
MergeSingle(prev, resp) ==
    Tree(Put(CopyOrEmpty(prev), resp.json.filePath.path, resp.json.fileContent.s))

ModelMessage(text) == [role |-> "model", text |-> text]
UserMessage(text) == [role |-> "user", text |-> text]

\* the message the text branch appends to the transcript
ReplyMessage(resp) ==
    CASE Branch(resp) = "files" ->
           ModelMessage("Okay! I've created or updated the following file(s): "
                        \o AcceptedPaths(resp.json.files.items))
      [] Branch(resp) = "single" ->
           ModelMessage("Okay! I've created the file " \o PathText(resp.json.filePath.path))
      [] OTHER -> ModelMessage(resp.text)

----------------------------------------------------------------------------
(* src/App.tsx: the asset tool call *)

\* the fileName argument of a generateImageAndPlist call, as its characters
FileNames == {<<"e", "x", "t", "r", "a", ".", "p", "n", "g">>,
              <<"M", "y", "/", "I", "c", "o", "n">>,
              <<"a", ".", "P", "N", "G">>}
ImageBytes == {"QUJD"}
PlistTexts == {"<plist/>"}

\* the characters /[^a-z0-9-_\.]/gi leaves alone
SafeChar(c) ==
    c \in Range(LowerCase) \cup Range(UpperCase) \cup Digits \cup {"-", "_", "."}

DotPng == <<".", "p", "n", "g">>
DotPlist == <<".", "p", "l", "i", "s", "t">>

\* cs.endsWith(suffix)
EndsWith(cs, suffix) ==
    /\ Len(cs) >= Len(suffix)
    /\ SubSeq(cs, Len(cs) - Len(suffix) + 1, Len(cs)) = suffix

\* cs.replace(old, new): the first occurrence only
ReplaceFirst(cs, old, new) ==
    LET hits == {i \in 1..(Len(cs) - Len(old) + 1) : SubSeq(cs, i, i + Len(old) - 1) = old} IN
    IF hits = {} THEN cs
    ELSE LET i == CHOOSE j \in hits : \A k \in hits : j <= k IN
         SubSeq(cs, 1, i - 1) \o new \o SubSeq(cs, i + Len(old), Len(cs))

\* (fileName.endsWith('.png') ? fileName : fileName + '.png')
\*     .replace(/[^a-z0-9-_\.]/gi, '-').toLowerCase()
SanitizedFileName(fileName) ==
    LET withPng == IF EndsWith(fileName, DotPng) THEN fileName ELSE fileName \o DotPng IN
    [i \in DOMAIN withPng |-> ToLower(IF SafeChar(withPng[i]) THEN withPng[i] ELSE "-")]

\* sanitizedFileName.replace('.png', '.plist')
PlistFileName(fileName) == ReplaceFirst(SanitizedFileName(fileName), DotPng, DotPlist)

\* the updater of "3. Update file state"
InsertAsset(prev, fileName, image, plist) ==
    LET newFiles == Delete(CopyOrEmpty(prev), GitkeepPath) IN
    Tree(Put(Put(newFiles, <<"assets", Join(SanitizedFileName(fileName))>>, image),
             <<"assets", Join(PlistFileName(fileName))>>, plist))

NoCall == [fileName |-> <<>>, image |-> ""]

\* parseAiError
ErrorKinds == {"429", "boom"}
parseAiError(error) ==
    IF error = "429"
    THEN "You've made too many requests in a short period. Please wait a moment and try again."
    ELSE "An unexpected AI error occurred. Please check the browser console for more details."

----------------------------------------------------------------------------
(* The state machine *)

\* history: the operation that produced the state and what it was given
Did(op, path, content, wasKey, resp) ==
    [op |-> op, path |-> path, content |-> content, wasKey |-> wasKey, resp |-> resp,
     stale |-> FALSE, runs |-> 0, turn |-> 0]

\* the same for the step that applies the answer of the call in flight
DidArrive(op, resp) == [Did(op, <<>>, "", FALSE, resp) EXCEPT !.stale = requestIsStale]

\* a setting's id is a React key made from Date.now(): a number no other
\* setting of the list has
InitialSetting ==
    [id |-> 0, key |-> "welcome_message", name |-> "Welcome Message",
     description |-> "The message to display on startup", type |-> "string",
     default |-> Str(<<"H", "e", "l", "l", "o", ",", " ", "G", "e", "o", "d", "e", "!">>)]

FirstYear == 2025

\* no logo file is being read
NoRead == [pending |-> FALSE]

\* no archive built yet; an archive maps a path to how its entry was written
NoZip == [made |-> FALSE, entries |-> [p \in {} |-> [base64 |-> FALSE, content |-> ""]]]

InitialModData ==
    [id |-> "", name |-> "", version |-> "v1.0.0", developer |-> "", description |-> "",
     logo |-> NoLogo, repository |-> "", cppTemplate |-> "menulayer", includeCi |-> FALSE,
     platforms |-> [win |-> TRUE, mac |-> TRUE, android |-> TRUE, ios |-> FALSE],
     gdVersion |-> "*", geodeVersion |-> "2.0.0-beta.26",
     providesApi |-> FALSE, earlyLoad |-> FALSE,
     dependencies |-> <<>>, tags |-> <<>>, settings |-> <<InitialSetting>>]

Init ==
    /\ ai \in BOOLEAN
    /\ modData = InitialModData
    /\ generatedFiles = Null
    /\ effect = "idle"
    /\ chatStep = "idle"
    /\ toolCall = NoCall
    /\ chatHistory = <<>>
    /\ aiError = ""
    /\ year = FirstYear
    /\ zip = NoZip
    /\ requestIsStale = FALSE
    /\ idError = ""
    /\ selectedFile = <<>>
    /\ reader = NoRead
    /\ last = Did("init", <<>>, "", FALSE, NoResponse)

\* React runs the effect of a committed render before it handles the next event
Ready == effect # "due"

\* ModForm.handleChange on one of the text fields, then App.handleFormChange
handleChange(field, value) ==
    /\ Ready
    /\ modData' = [modData EXCEPT ![field] = value]
    /\ effect' = "due"
    /\ requestIsStale' = (chatStep # "idle" /\ (requestIsStale \/ modData' # modData))
    /\ last' = Did("handleChange", <<field>>, "", FALSE, NoResponse)
    /\ UNCHANGED <<ai, idError, selectedFile, reader, generatedFiles, chatStep, toolCall, chatHistory, aiError, year, zip>>

\* the "Remove Logo" button
removeLogo ==
    /\ Ready
    /\ modData.logo # NoLogo
    /\ modData' = [modData EXCEPT !.logo = NoLogo]
    /\ effect' = "due"
    /\ requestIsStale' = (chatStep # "idle")
    /\ last' = Did("removeLogo", <<>>, "", FALSE, NoResponse)
    /\ UNCHANGED <<ai, idError, selectedFile, reader, generatedFiles, chatStep, toolCall, chatHistory, aiError, year, zip>>

\* handleGenerateLogo through safeApiCall: the image arrives, or the call throws
handleGenerateLogo ==
    /\ Ready
    /\ ai
    /\ modData.name # ""
    /\ \/ \E payload \in LogoPayloads :
            /\ modData' = [modData EXCEPT !.logo = LogoUrl(payload)]
            /\ effect' = "due"
            /\ aiError' = ""
       \/ \E error \in ErrorKinds :
            /\ aiError' = parseAiError(error)
            /\ UNCHANGED <<modData, effect>>
    /\ requestIsStale' = (chatStep # "idle" /\ (requestIsStale \/ modData' # modData))
    /\ last' = Did("handleGenerateLogo", <<>>, "", FALSE, NoResponse)
    /\ UNCHANGED <<ai, idError, selectedFile, reader, generatedFiles, chatStep, toolCall, chatHistory, year, zip>>

\* the spelling of the identifiers typed into the Mod ID field
IdSpellings ==
    {<<>>,
     <<"c", "o", "m", ".", "d", "e", "v", ".", "m", "o", "d">>,
     <<"M", "y", "M", "o", "d">>,
     <<"m", "o", "d">>,
     <<"c", "o", "m", ".", ".", "m", "o", "d">>}

IdChars(id) == CHOOSE cs \in IdSpellings : Join(cs) = id

\* [a-z0-9-]
IdSegmentChar(c) == c \in Range(LowerCase) \cup Digits \cup {"-"}

\* /^[a-z0-9-]+(\.[a-z0-9-]+)+$/ on the characters: every '.' stands between
\* two segment characters, there is one, and nothing else occurs
RegexTest(cs) ==
    /\ \A i \in DOMAIN cs :
          \/ IdSegmentChar(cs[i])
          \/ /\ cs[i] = "."
             /\ 1 < i /\ i < Len(cs)
             /\ IdSegmentChar(cs[i - 1]) /\ IdSegmentChar(cs[i + 1])
    /\ \E i \in DOMAIN cs : cs[i] = "."

\* regex.test(modData.id)
IdRegexTest(id) == RegexTest(IdChars(id))

IdErrorText == "Mod ID must be in reverse domain format, e.g., com.yourname.modname"

\* the test without its first conjunct
IdHintAlsoWhenEmpty(id) == IF ~IdRegexTest(id) THEN IdErrorText ELSE ""

\* the hint the validation effect of ModForm sets for modData.id
IdHint(id) == IF id # "" /\ ~IdRegexTest(id) THEN IdErrorText ELSE ""

\* fileList.includes('mod.json') ? 'mod.json' : fileList[0] || ''; the store
\* is kept as a map, which does not tell which key was inserted first
FirstChoice(files) ==
    IF <<"mod.json">> \in DOMAIN files THEN {<<"mod.json">>}
    ELSE IF DOMAIN files = {} THEN {<<>>} ELSE DOMAIN files

\* the selection effect of CodeWorkspace: the paths selectedFile may hold after it
SelectionEffect(files, selected) ==
    IF files.present
    THEN IF selected = <<>> \/ selected \notin DOMAIN files.files \/ files.files[selected] = ""
         THEN FirstChoice(files.files) ELSE {selected}
    ELSE {selected}

\* the effects of one commit, children first: the validation effect of ModForm
\* (deps [modData.id]), the selection effect of CodeWorkspace (deps [files,
\* selectedFile]) and
\* useEffect(() => { if (complete) generateFiles(); else setGeneratedFiles(null) },
\*           [modData, generateFiles]); generateFiles is re-created whenever
\* modData or generatedFiles changes, so a write of a new store object makes
\* the effect run again. The history counts the runs in a row up to MaxRuns;
\* its turn tells the object a run wrote from the object of the run before.
regenerationEffect ==
    /\ effect # "idle"
    /\ idError' = IF effect = "due" THEN IdHint(modData.id) ELSE idError
    /\ \E path \in SelectionEffect(generatedFiles, selectedFile) : selectedFile' = path
    /\ IF RequiredComplete(modData)
       THEN /\ generatedFiles' = Tree(generateFiles(modData, generatedFiles))
            /\ effect' = "rerun"
       ELSE /\ generatedFiles' = Null
            /\ effect' = IF generatedFiles.present THEN "rerun" ELSE "idle"
    /\ last' = [Did("effect", <<>>, "", FALSE, NoResponse) EXCEPT
                  !.runs = IF last.op = "effect" /\ last.runs < MaxRuns THEN last.runs + 1
                           ELSE IF last.op = "effect" THEN MaxRuns ELSE 1,
                  !.turn = 1 - last.turn]
    /\ UNCHANGED <<ai, reader, modData, chatStep, toolCall, chatHistory, aiError, requestIsStale, year, zip>>

\* an updater that only replaces
PatchOneExistingOnly(prev, path, newContent) ==
    IF prev.present /\ path \in DOMAIN prev.files
    THEN Tree(Put(prev.files, path, newContent)) ELSE prev

\* an updater that starts a tree when there is none
PatchOneCreating(prev, path, newContent) ==
    Tree(Put(IF prev.present THEN prev.files ELSE NoFiles, path, newContent))

\* setGeneratedFiles(prev => prev ? { ...prev, [path]: newContent } : null)
PatchOne(prev, path, newContent) ==
    IF prev.present THEN Tree(Put(prev.files, path, newContent)) ELSE Null

handleFileContentChange(path, newContent) ==
    /\ Ready
    /\ generatedFiles' = PatchOne(generatedFiles, path, newContent)
    /\ effect' = IF generatedFiles.present THEN "due" ELSE effect
    /\ last' = Did("handleFileContentChange", path, newContent,
                   generatedFiles.present /\ path \in DOMAIN generatedFiles.files, NoResponse)
    /\ UNCHANGED <<ai, idError, selectedFile, reader, modData, chatStep, toolCall, chatHistory, aiError, requestIsStale, year, zip>>

\* handleSendMessage up to the await of chat.sendMessage; the chat form and the
\* explain button are disabled while isChatting
handleSendMessage ==
    /\ Ready
    /\ ai
    /\ chatStep = "idle"
    /\ Len(chatHistory) < MaxChat
    /\ chatHistory' = Append(chatHistory, UserMessage("message"))
    /\ aiError' = ""
    /\ chatStep' = "sent"
    /\ requestIsStale' = FALSE
    /\ last' = Did("handleSendMessage", <<>>, "", FALSE, NoResponse)
    /\ UNCHANGED <<ai, idError, selectedFile, reader, modData, generatedFiles, effect, toolCall, year, zip>>

\* an awaited call of the AI service throws: the catch and finally of safeApiCall
callFails(step, op) ==
    /\ Ready
    /\ chatStep = step
    /\ \E error \in ErrorKinds : aiError' = parseAiError(error)
    /\ chatStep' = "idle"
    /\ toolCall' = NoCall
    /\ requestIsStale' = FALSE
    /\ last' = DidArrive(op, NoResponse)
    /\ UNCHANGED <<ai, idError, selectedFile, reader, modData, generatedFiles, effect, chatHistory, year, zip>>

chatFails == callFails("sent", "chatFails")
imageFails == callFails("image", "imageFails")
plistFails == callFails("plist", "plistFails")

\* chat.sendMessage resolves with a generateImageAndPlist function call
toolCallArrives ==
    /\ Ready
    /\ chatStep = "sent"
    /\ \E fileName \in FileNames : toolCall' = [fileName |-> fileName, image |-> ""]
    /\ chatStep' = "image"
    /\ last' = Did("toolCallArrives", <<>>, "", FALSE, NoResponse)
    /\ UNCHANGED <<ai, idError, selectedFile, reader, modData, generatedFiles, effect, chatHistory, aiError, requestIsStale, year, zip>>

\* the image written to the store as soon as it arrives
imageArrivesAndIsStored ==
    /\ Ready
    /\ chatStep = "image"
    /\ \E bytes \in ImageBytes :
         /\ toolCall' = [toolCall EXCEPT !.image = bytes]
         /\ generatedFiles' = Tree(Put(Delete(CopyOrEmpty(generatedFiles), GitkeepPath),
                <<"assets", Join(SanitizedFileName(toolCall.fileName))>>, bytes))
    /\ effect' = "due"
    /\ chatStep' = "plist"
    /\ last' = Did("imageArrives", <<>>, "", FALSE, NoResponse)
    /\ UNCHANGED <<ai, idError, selectedFile, reader, modData, chatHistory, aiError, requestIsStale, year, zip>>

\* "1. Generate Image" resolves
imageArrives ==
    /\ Ready
    /\ chatStep = "image"
    /\ \E bytes \in ImageBytes : toolCall' = [toolCall EXCEPT !.image = bytes]
    /\ chatStep' = "plist"
    /\ last' = Did("imageArrives", <<>>, "", FALSE, NoResponse)
    /\ UNCHANGED <<ai, idError, selectedFile, reader, modData, generatedFiles, effect, chatHistory, aiError, requestIsStale, year, zip>>

\* "2. Generate Plist" resolves: "3. Update file state", "4. Add confirmation"
plistArrives ==
    /\ Ready
    /\ chatStep = "plist"
    /\ \E plist \in PlistTexts :
         generatedFiles' = InsertAsset(generatedFiles, toolCall.fileName, toolCall.image, plist)
    /\ effect' = "due"
    /\ chatHistory' = Append(chatHistory,
          ModelMessage("Okay! I've created the asset " \o Join(toolCall.fileName)))
    /\ chatStep' = "idle"
    /\ toolCall' = NoCall
    /\ requestIsStale' = FALSE
    /\ last' = DidArrive("plistArrives", NoResponse)
    /\ UNCHANGED <<ai, idError, selectedFile, reader, modData, aiError, year, zip>>

\* the store after the text branch handled the response
AfterText(prev, resp) ==
    CASE Branch(resp) = "files" -> MergeFiles(prev, resp)
      [] Branch(resp) = "single" -> MergeSingle(prev, resp)
      [] OTHER -> prev

\* chat.sendMessage resolves without a function call: "Handle text/code generation"
textArrives ==
    /\ Ready
    /\ chatStep = "sent"
    /\ \E resp \in TextResponses :
         /\ generatedFiles' = AfterText(generatedFiles, resp)
         /\ effect' = IF Branch(resp) = "plain" THEN effect ELSE "due"
         /\ chatHistory' = Append(chatHistory, ReplyMessage(resp))
         /\ last' = DidArrive("text-" \o Branch(resp), resp)
    /\ chatStep' = "idle"
    /\ requestIsStale' = FALSE
    /\ UNCHANGED <<ai, idError, selectedFile, reader, modData, toolCall, aiError, year, zip>>

FieldValues(field) ==
    CASE field = "id" -> IdValues
      [] field = "name" -> NameValues
      [] field = "developer" -> DeveloperValues
      [] OTHER -> BOOLEAN

EditFields == {"id", "name", "developer", "includeCi"}

Next ==
    \/ \E field \in EditFields : \E value \in FieldValues(field) : handleChange(field, value)
    \/ removeLogo
    \/ handleGenerateLogo
    \/ regenerationEffect
    \/ \E path \in EditPaths, newContent \in EditContents : handleFileContentChange(path, newContent)
    \/ handleSendMessage
    \/ chatFails
    \/ imageFails
    \/ plistFails
    \/ toolCallArrives
    \/ imageArrives
    \/ plistArrives
    \/ textArrives

Spec == Init /\ [][Next]_vars

----------------------------------------------------------------------------
(* src/components/ModForm.tsx, src/App.tsx: the custom settings *)

Templates == {"menulayer", "playlayer", "settings"}

\* the options of the type select
SettingTypes == {"bool", "int", "float", "string"}

\* the values the input that renderDefaultValueInput renders reports: a
\* checkbox gives e.target.checked, the number and text inputs give
\* e.target.value, which is a string
DefaultInputs(setting) ==
    CASE setting.type = "bool" -> {Bool(~ToBoolean(setting.default))}
      [] setting.type \in {"int", "float"} -> {Str(<<"5">>)}
      [] setting.type = "string" -> {Str(<<"h", "i">>)}
      [] OTHER -> {}

\* the objects of the array the AI suggests; type and default are free strings
AiSuggestions ==
    {[key |-> "speed", name |-> "Speed", description |-> "How fast", type |-> "int",
      default |-> <<"7">>],
     [key |-> "mode", name |-> "Mode", description |-> "Which mode", type |-> "number",
      default |-> <<"7">>]}

\* Date.now() when the k-th new setting is made: the k-th number that is not
\* the id of a setting of the list
FreshId(settings, k) ==
    LET used == {settings[i].id : i \in DOMAIN settings}
        free == (0..(Len(settings) + k)) \ used
    IN CHOOSE n \in free : Cardinality({m \in free : m < n}) = k - 1

\* the switch of handleSettingChange without its reset
UpdatedSettingKeepingDefault(setting, field, value) == [setting EXCEPT ![field] = value]

\* const updatedSetting = { ...s, [field]: value }; if (field === 'type') switch ...
UpdatedSetting(setting, field, value) ==
    LET updatedSetting == [setting EXCEPT ![field] = value] IN
    IF field = "type"
    THEN CASE value = "bool" -> [updatedSetting EXCEPT !.default = Bool(FALSE)]
           [] value = "int" -> [updatedSetting EXCEPT !.default = Num(Zero)]
           [] value = "float" -> [updatedSetting EXCEPT !.default = Num(Zero)]
           [] value = "string" -> [updatedSetting EXCEPT !.default = Str(<<>>)]
           [] OTHER -> updatedSetting
    ELSE updatedSetting

\* the switch on s.type of handleGenerateSettings
ParsedDefault(s) ==
    CASE s.type = "bool" -> Bool([i \in DOMAIN s.default |-> ToLower(s.default[i])] = True)
      [] s.type = "int" -> OrZero(parseInt(s.default))
      [] s.type = "float" -> OrZero(parseFloat(s.default))
      [] OTHER -> Str(s.default)

\* suggestedSettings.map((s, i) => ({ id, key, name, description, type, default }))
NewSettings(settings, suggested) ==
    [i \in DOMAIN suggested |->
        [id |-> FreshId(settings, i), key |-> suggested[i].key, name |-> suggested[i].name,
         description |-> suggested[i].description, type |-> suggested[i].type,
         default |-> ParsedDefault(suggested[i])]]

\* the steps below leave the chat, the archive and the clock alone
OnlyTheForm == UNCHANGED <<ai, idError, selectedFile, reader, generatedFiles, chatStep, toolCall, chatHistory, aiError,
                           year, zip, requestIsStale>>

addSetting ==
    /\ Ready
    /\ Len(modData.settings) < MaxSettings
    /\ modData' = [modData EXCEPT !.settings =
          Append(@, [id |-> FreshId(@, 1),
                     key |-> "new-setting-" \o ToString(Len(@)),
                     name |-> "New Setting",
                     description |-> "A description for the new setting.",
                     type |-> "bool", default |-> Bool(FALSE)])]
    /\ effect' = "due"
    /\ last' = Did("addSetting", <<>>, "", FALSE, NoResponse)
    /\ OnlyTheForm

removeSetting(id) ==
    /\ Ready
    /\ modData' = [modData EXCEPT !.settings = SelectSeq(@, LAMBDA st : st.id # id)]
    /\ effect' = "due"
    /\ last' = Did("removeSetting", <<ToString(id)>>, "", FALSE, NoResponse)
    /\ OnlyTheForm

handleSettingChange(id, field, value) ==
    /\ Ready
    /\ modData' = [modData EXCEPT !.settings =
          [i \in DOMAIN @ |-> IF @[i].id = id THEN UpdatedSetting(@[i], field, value) ELSE @[i]]]
    /\ effect' = "due"
    /\ last' = Did("handleSettingChange", <<field, ToString(id)>>,
                   IF field = "type" THEN value ELSE Join(value.v), FALSE, NoResponse)
    /\ OnlyTheForm

\* handleGenerateSettings through safeApiCall: the suggestions arrive, or the
\* call throws
handleGenerateSettings ==
    /\ Ready
    /\ ai
    /\ modData.name # "" /\ modData.description # ""
    /\ \/ \E suggested \in SeqsUpTo(AiSuggestions, MaxSuggestions) :
            /\ Len(modData.settings) + Len(suggested) <= MaxSettings
            /\ modData' = [modData EXCEPT !.settings = @ \o NewSettings(@, suggested)]
            /\ effect' = "due"
            /\ aiError' = ""
       \/ \E error \in ErrorKinds :
            /\ aiError' = parseAiError(error)
            /\ UNCHANGED <<modData, effect>>
    /\ last' = Did("handleGenerateSettings", <<>>, "", FALSE, NoResponse)
    /\ UNCHANGED <<ai, idError, selectedFile, reader, generatedFiles, chatStep, toolCall, chatHistory, year, zip, requestIsStale>>

\* the form filled in far enough for the tree to be generated and for the AI
\* buttons to be enabled
FilledModData ==
    [InitialModData EXCEPT !.id = "com.dev.mod", !.name = "Mod", !.developer = "Dev",
                           !.description = "Demo"]

\* the page after the last required field was typed, before the effect ran
FilledInit(configurations) ==
    /\ ai = TRUE
    /\ modData \in configurations
    /\ generatedFiles = Null
    /\ effect = "due"
    /\ chatStep = "idle"
    /\ toolCall = NoCall
    /\ chatHistory = <<>>
    /\ aiError = ""
    /\ year = FirstYear
    /\ zip = NoZip
    /\ requestIsStale = FALSE
    /\ idError = ""
    /\ selectedFile = <<>>
    /\ reader = NoRead
    /\ last = Did("handleChange", <<"developer">>, "", FALSE, NoResponse)

SettingsInit == FilledInit({FilledModData})

SettingsNext ==
    \/ \E value \in Templates : handleChange("cppTemplate", value)
    \/ addSetting
    \/ \E i \in DOMAIN modData.settings : removeSetting(modData.settings[i].id)
    \/ \E i \in DOMAIN modData.settings : \E value \in SettingTypes :
          handleSettingChange(modData.settings[i].id, "type", value)
    \/ \E i \in DOMAIN modData.settings : \E value \in DefaultInputs(modData.settings[i]) :
          handleSettingChange(modData.settings[i].id, "default", value)
    \/ handleGenerateSettings
    \/ regenerationEffect

\* the settings part of the form with the regeneration effect
SettingsSpec == SettingsInit /\ [][SettingsNext]_vars

KeysNext ==
    \/ addSetting
    \/ \E i \in DOMAIN modData.settings : removeSetting(modData.settings[i].id)
    \/ \E i \in DOMAIN modData.settings : \E value \in SettingTypes :
          handleSettingChange(modData.settings[i].id, "type", value)
    \/ regenerationEffect

\* the settings list under "Add Setting", the remove buttons and the type
\* selects: no key is typed and no suggestion is asked for
KeysSpec == SettingsInit /\ [][KeysNext]_vars

----------------------------------------------------------------------------
(* src/services/modGenerator.ts: the manifest for the platform boxes, the    *)
(* game version and the dependencies text                                   *)

\* data.gdVersion: an option of the select, or the empty string the || "*" is for
GdVersions == {"", "2.206"}

\* what can be typed into the dependencies field
DependencyChars == {"a", "@", ",", " "}
DependencyTexts == SeqsUpTo(DependencyChars, MaxDeps)

ManifestInit ==
    FilledInit({[FilledModData EXCEPT !.platforms = platforms, !.gdVersion = gdVersion,
                                      !.dependencies = dependencies] :
                    platforms \in [Range(PlatformOrder) -> BOOLEAN],
                    gdVersion \in GdVersions,
                    dependencies \in DependencyTexts})

ManifestNext == regenerationEffect

\* the generator applied to each of these configurations
ManifestSpec == ManifestInit /\ [][ManifestNext]_vars

\* one change has just completed the configuration; no event follows
SettleInit ==
    FilledInit({[FilledModData EXCEPT !.platforms = platforms, !.includeCi = includeCi,
                                      !.logo = logo, !.cppTemplate = cppTemplate] :
                    platforms \in [Range(PlatformOrder) -> BOOLEAN],
                    includeCi \in BOOLEAN,
                    logo \in {NoLogo} \cup {LogoUrl(payload) : payload \in LogoPayloads},
                    cppTemplate \in Templates})

SettleNext == regenerationEffect

\* React runs an effect whose dependencies changed after every commit
SettleSpec == SettleInit /\ [][SettleNext]_vars /\ WF_vars(regenerationEffect)

----------------------------------------------------------------------------
(* src/App.tsx: the archive *)

\* the file names of the paths, spelled
FileNameSpellings ==
    {<<"m", "o", "d", ".", "j", "s", "o", "n">>,
     <<"C", "M", "a", "k", "e", "L", "i", "s", "t", "s", ".", "t", "x", "t">>,
     <<"m", "a", "i", "n", ".", "c", "p", "p">>,
     <<"R", "E", "A", "D", "M", "E", ".", "m", "d">>,
     <<".", "g", "i", "t", "i", "g", "n", "o", "r", "e">>,
     <<"L", "I", "C", "E", "N", "S", "E">>,
     <<"C", "O", "N", "T", "R", "I", "B", "U", "T", "I", "N", "G", ".", "m", "d">>,
     <<".", "g", "i", "t", "k", "e", "e", "p">>,
     <<"m", "a", "i", "n", ".", "y", "m", "l">>,
     <<"l", "o", "g", "o", ".", "p", "n", "g">>,
     <<"e", "x", "t", "r", "a", ".", "p", "n", "g">>,
     <<"U", "N", "L", "I", "C", "E", "N", "S", "E">>,
     <<"a", "t", "l", "a", "s", ".", "p", "l", "i", "s", "t">>,
     <<"u", "t", "i", "l", ".", "h", "p", "p">>}

\* the characters of a file name
Spell(name) == CHOOSE cs \in FileNameSpellings : Join(cs) = name

\* the list isTextFile tests the end of the path against
TextEndings ==
    {<<".", "j", "s", "o", "n">>, <<".", "t", "x", "t">>, <<".", "c", "p", "p">>,
     <<".", "m", "d">>, <<".", "y", "m", "l">>,
     <<".", "g", "i", "t", "i", "g", "n", "o", "r", "e">>,
     <<"L", "I", "C", "E", "N", "S", "E">>, <<".", "g", "i", "t", "k", "e", "e", "p">>,
     <<".", "p", "l", "i", "s", "t">>}

\* [...].some(ext => path.endsWith(ext)); no ending holds a '/', so the path
\* ends with it exactly when its file name does
isTextFile(path) == \E ext \in TextEndings : EndsWith(Spell(path[Len(path)]), ext)

\* addFileToZip over every path of the store
Archive(files) ==
    [made |-> TRUE,
     entries |-> [p \in DOMAIN files |-> [base64 |-> ~isTextFile(p), content |-> files[p]]]]

\* const isFormValid = modData.id && modData.name && modData.developer && !idError
isFormValid == modData.id # "" /\ modData.name # "" /\ modData.developer # "" /\ idError = ""

\* handleDownload runs to its end before the next event: isDownloading is
\* false in every state
isDownloading == FALSE

\* the button "Generate & Download Source": disabled={!isFormValid || isDownloading}
DownloadEnabled == isFormValid /\ ~isDownloading

handleDownload ==
    /\ Ready
    /\ DownloadEnabled
    /\ generatedFiles.present
    /\ zip' = Archive(generatedFiles.files)
    /\ last' = Did("handleDownload", <<>>, "", FALSE, NoResponse)
    /\ UNCHANGED <<ai, idError, selectedFile, reader, modData, generatedFiles, effect, chatStep, toolCall, chatHistory,
                   aiError, year, requestIsStale>>

\* midnight of December 31
newYear ==
    /\ year < FirstYear + MaxYears
    /\ year' = year + 1
    /\ last' = Did("newYear", <<>>, "", FALSE, NoResponse)
    /\ UNCHANGED <<ai, idError, selectedFile, reader, modData, generatedFiles, effect, chatStep, toolCall, chatHistory,
                   aiError, zip, requestIsStale>>

\* paths and contents of the writes to the store tried here
WorkspacePaths == {<<"assets", "UNLICENSE">>, <<"assets", "extra.png">>,
                   <<"assets", "atlas.plist">>, <<"assets", "util.hpp">>,
                   <<"docs", "UNLICENSE">>, <<"LICENSE">>}
WorkspaceContents == {"QUJD"}

\* const isImageFile = selectedFile.endsWith('.png')
isImageFile(path) == EndsWith(Spell(path[Len(path)]), DotPng)

\* a file button of the explorer, which is rendered when there are files and a
\* selected file: setSelectedFile(path), then the selection effect of the commit
onFileSelect(path) ==
    /\ Ready
    /\ generatedFiles.present /\ selectedFile # <<>>
    /\ path \in DOMAIN generatedFiles.files
    /\ \E selected \in SelectionEffect(generatedFiles, path) : selectedFile' = selected
    /\ last' = Did("onFileSelect", path, "", TRUE, NoResponse)
    /\ UNCHANGED <<ai, idError, reader, modData, generatedFiles, effect, chatStep, toolCall,
                   chatHistory, aiError, year, zip, requestIsStale>>

WorkspaceInit ==
    FilledInit({[FilledModData EXCEPT !.includeCi = includeCi, !.logo = logo] :
                    includeCi \in BOOLEAN,
                    logo \in {NoLogo} \cup {LogoUrl(payload) : payload \in LogoPayloads}})

WorkspaceNext ==
    \/ regenerationEffect
    \/ \E path \in WorkspacePaths, newContent \in WorkspaceContents :
          handleFileContentChange(path, newContent)
    \/ newYear
    \/ handleDownload

\* the store with its writes, the clock and the download
WorkspaceSpec == WorkspaceInit /\ [][WorkspaceNext]_vars

EditorNext ==
    \/ regenerationEffect
    \/ \E path \in EditPaths, newContent \in EditContents :
          handleFileContentChange(path, newContent)
    \/ \E path \in DOMAIN generatedFiles.files : onFileSelect(path)

\* the editor: the explorer's file buttons, the text area and the effects
EditorSpec == WorkspaceInit /\ [][EditorNext]_vars

----------------------------------------------------------------------------
(* src/components/ModForm.tsx: the required fields, the logo upload and the  *)
(* download button                                                           *)

\* what is typed into the Mod ID field
FormIdValues == {Join(cs) : cs \in IdSpellings}

\* handleLogoUpload with a PNG file: readAsDataURL starts, and the callback
\* keeps the modData of the render the handler ran in; one read at a time
handleLogoUpload ==
    /\ Ready
    /\ ~reader.pending
    /\ \E payload \in LogoPayloads :
         reader' = [pending |-> TRUE, modData |-> modData, result |-> LogoUrl(payload)]
    /\ last' = Did("handleLogoUpload", <<>>, "", FALSE, NoResponse)
    /\ UNCHANGED <<ai, idError, selectedFile, modData, generatedFiles, effect, chatStep, toolCall,
                   chatHistory, aiError, year, zip, requestIsStale>>

\* reader.onloadend: onFormChange({ ...modData, logo: reader.result })
onloadend ==
    /\ Ready
    /\ reader.pending
    /\ modData' = [reader.modData EXCEPT !.logo = reader.result]
    /\ effect' = "due"
    /\ reader' = NoRead
    /\ requestIsStale' = (chatStep # "idle" /\ (requestIsStale \/ modData' # modData))
    /\ last' = Did("onloadend", <<>>, "", FALSE, NoResponse)
    /\ UNCHANGED <<ai, idError, selectedFile, generatedFiles, chatStep, toolCall, chatHistory,
                   aiError, year, zip>>

FormNext ==
    \/ \E value \in FormIdValues : handleChange("id", value)
    \/ \E value \in NameValues : handleChange("name", value)
    \/ \E value \in DeveloperValues : handleChange("developer", value)
    \/ handleLogoUpload
    \/ onloadend
    \/ regenerationEffect
    \/ handleDownload

\* the form from the first render on
FormSpec == Init /\ [][FormNext]_vars

----------------------------------------------------------------------------
(* Properties *)

\* identifier, name and developer are all non-empty
AllRequiredFilled(data) == ~(data.id = "" \/ data.name = "" \/ data.developer = "")

Files == generatedFiles.files

\* a path under assets/ that is neither the logo nor the placeholder
ExtraAsset(path) ==
    /\ Len(path) > 1
    /\ Head(path) = "assets"
    /\ path \notin {<<"assets", "logo.png">>, <<"assets", ".gitkeep">>}

\* C1 Required-field gating: once the regeneration effect has run for the
\* latest event, the store is absent exactly when identifier, name or
\* developer is empty; this covers a cleared developer and an AI mutation that
\* arrives while a required field is empty.
C1_RequiredFieldGating ==
    effect # "due" => (generatedFiles.present <=> AllRequiredFilled(modData))

\* the effect has just cleared a store that was present while developer is
\* empty on an otherwise complete configuration
C1_Witness ==
    /\ last.op = "effect"
    /\ ~generatedFiles.present
    /\ modData.id # "" /\ modData.name # "" /\ modData.developer = ""
    /\ effect = "rerun"

\* C2 Asset preservation over one regenerate: a run of the regeneration effect
\* with a complete configuration returns a tree that holds every entry the
\* previous tree held under assets/ (other than the logo and the placeholder),
\* with the same content.
C2_AssetPreservedByRegenerate ==
    [][(last'.op = "effect" /\ AllRequiredFilled(modData) /\ generatedFiles.present)
        => \A path \in DOMAIN Files :
             ExtraAsset(path) =>
                /\ generatedFiles'.present
                /\ path \in DOMAIN generatedFiles'.files
                /\ generatedFiles'.files[path] = Files[path]]_vars

\* a regenerated tree that carries an asset the generator does not produce
C2_Witness ==
    /\ last.op = "effect"
    /\ generatedFiles.present
    /\ AllRequiredFilled(modData)
    /\ <<"assets", "my-icon.plist">> \in DOMAIN Files
    /\ Files[<<"assets", "my-icon.plist">>] = "<plist/>"

ConfigOps == {"handleChange", "removeLogo", "handleGenerateLogo"}

\* the step is a configuration edit, or a run of the regeneration effect that
\* a configuration edit caused
ConfigStep ==
    \/ last'.op \in ConfigOps
    \/ last'.op = "effect" /\ last.op \in ConfigOps \cup {"effect"}

\* every extra asset of the store is in the next store with the same content
ExtraAssetsStay ==
    generatedFiles.present =>
        \A path \in DOMAIN Files :
            ExtraAsset(path) =>
                /\ generatedFiles'.present
                /\ path \in DOMAIN generatedFiles'.files
                /\ generatedFiles'.files[path] = Files[path]

\* C3 (as claimed) Asset preservation across configuration edits: an extra
\* asset of the store survives every configuration edit and the regeneration
\* it causes, also an edit that empties a required field.
C3_AssetSurvivesAnyConfigEdit == [][ConfigStep => ExtraAssetsStay]_vars

\* C3 (amended) An extra asset of the store survives every configuration edit
\* and the regeneration it causes as long as identifier, name and developer are
\* non-empty after the edit.
C3_AssetSurvivesCompleteConfigEdit ==
    [][(ConfigStep /\ AllRequiredFilled(modData')) => ExtraAssetsStay]_vars

\* a tree regenerated for a configuration with CI switched on and a logo that
\* still carries the AI-added asset
C3_Witness ==
    /\ last.op = "effect"
    /\ generatedFiles.present
    /\ modData.includeCi /\ modData.logo # NoLogo
    /\ <<".github", "workflows", "main.yml">> \in DOMAIN Files
    /\ <<"assets", "extra.png">> \in DOMAIN Files
    /\ Files[<<"assets", "extra.png">>] = "QUJD"

UnderAssets(path) == Len(path) > 1 /\ Head(path) = "assets"

\* the response writes at least one entry under assets/
WritesUnderAssets(resp) ==
    \/ /\ resp.json.files.t = "arr"
       /\ \E i \in DOMAIN resp.json.files.items :
            /\ UnderAssets(resp.json.files.items[i].filePath)
            /\ resp.json.files.items[i].fileContent # ""
    \/ /\ resp.json.files.t # "arr"
       /\ UnderAssets(resp.json.filePath.path)

\* C4 Placeholder removal: after an AI file batch (files form or single-file
\* form) that writes an entry under assets/, the store does not hold
\* assets/.gitkeep.
C4_BatchRemovesPlaceholder ==
    (last.op \in {"text-files", "text-single"} /\ WritesUnderAssets(last.resp))
        => <<"assets", ".gitkeep">> \notin DOMAIN Files

\* C5 Placeholder of a regenerated tree: a tree the regeneration effect has
\* just produced holds assets/.gitkeep exactly when no logo is set.
C5_PlaceholderIffNoLogo ==
    (last.op = "effect" /\ generatedFiles.present)
        => ((<<"assets", ".gitkeep">> \in DOMAIN Files) <=> (modData.logo = NoLogo))

LastForPath(items, i) == \A j \in DOMAIN items : j > i => items[j].filePath # items[i].filePath

\* C7 mergeMany: the one store update of a {files:[...]} response makes every
\* path of the batch map to its content (also the empty string) and leaves
\* every path that is not in the batch as it was.
C7_MergeManyComplete ==
    [][last'.op = "text-files"
        => LET items == last'.resp.json.files.items
               named == {items[i].filePath : i \in DOMAIN items} \ {<<>>}
               old == IF generatedFiles.present THEN Files ELSE NoFiles
           IN /\ generatedFiles'.present
              /\ \A i \in DOMAIN items :
                    (items[i].filePath # <<>> /\ LastForPath(items, i))
                       => /\ items[i].filePath \in DOMAIN generatedFiles'.files
                          /\ generatedFiles'.files[items[i].filePath] = items[i].fileContent
              /\ DOMAIN generatedFiles'.files \ named = DOMAIN old \ named
              /\ \A q \in DOMAIN old \ named : generatedFiles'.files[q] = old[q]]_vars

MutationOps == {"handleFileContentChange", "text-files", "text-single", "plistArrives"}

\* C8 Regeneration only on a configuration change: with a complete
\* configuration, the store a manual edit or an AI mutation has written is not
\* rewritten by the regeneration effect.
C8_MutationIsNotRegenerated ==
    [][(/\ last'.op = "effect"
        /\ last.op \in MutationOps
        /\ generatedFiles.present
        /\ AllRequiredFilled(modData))
        => generatedFiles' = generatedFiles]_vars

\* the text is JSON for an object with an array files, or with a string
\* filePath and a string fileContent
FileShape(resp) ==
    /\ resp.json.t = "obj"
    /\ \/ resp.json.files.t = "arr"
       \/ resp.json.filePath.t = "str" /\ resp.json.fileContent.t = "str"

\* C9 AI-response classification: a text response changes the store only if
\* it has one of the two file shapes; any other response leaves the store
\* unchanged, is appended to the chat as plain text and sets no error.
C9_ResponseClassification ==
    [][last'.op \in {"text-files", "text-single", "text-plain"}
        => /\ generatedFiles' # generatedFiles => FileShape(last'.resp)
           /\ ~FileShape(last'.resp)
                => /\ generatedFiles' = generatedFiles
                   /\ chatHistory' = Append(chatHistory,
                                            [role |-> "model", text |-> last'.resp.text])
                   /\ aiError' = aiError
                   /\ chatStep' = "idle"]_vars

\* the response "null" has been appended to the chat as plain text
C9_Witness ==
    /\ last.op = "text-plain"
    /\ last.resp.json.t = "null"
    /\ chatHistory # <<>>
    /\ chatHistory[Len(chatHistory)] = [role |-> "model", text |-> "null"]

\* C10 Failed external call: every step of an AI call other than its last,
\* successful one (sending, the tool call and the image arriving, the chat
\* request, the image generation or the descriptor generation failing) leaves
\* the store as it is.
C10_FailedCallKeepsStore ==
    [][last'.op \in {"handleSendMessage", "toolCallArrives", "imageArrives",
                     "chatFails", "imageFails", "plistFails"}
        => generatedFiles' = generatedFiles]_vars

\* the descriptor generation failed after the image had arrived: the
\* placeholder is still there and no asset was inserted
C10_Witness ==
    /\ last.op = "plistFails"
    /\ aiError # ""
    /\ generatedFiles.present
    /\ <<"assets", ".gitkeep">> \in DOMAIN Files
    /\ <<"assets", "my-icon.png">> \notin DOMAIN Files

\* the store, or the empty object when it is null
FilesOrNone == IF generatedFiles.present THEN Files ELSE NoFiles

\* cs with its final extension (the text from its last dot on) replaced by ext
WithFinalExtension(cs, ext) ==
    LET dots == {i \in DOMAIN cs : cs[i] = "."} IN
    IF dots = {} THEN cs \o ext
    ELSE SubSeq(cs, 1, (CHOOSE i \in dots : \A j \in dots : j <= i) - 1) \o ext

\* C11 Asset-generation insertion: the one store update of a successful asset
\* tool call removes assets/.gitkeep and adds exactly two distinct entries
\* directly under assets/: the image at the sanitized file name and the
\* descriptor at the same name with its final extension replaced by .plist;
\* every other entry stays as it was.
C11_AssetInsertion ==
    [][last'.op = "plistArrives"
        => LET name == SanitizedFileName(toolCall.fileName)
               image == <<"assets", Join(name)>>
               descriptor == <<"assets", Join(WithFinalExtension(name, DotPlist))>>
               kept == DOMAIN FilesOrNone \ {<<"assets", ".gitkeep">>, image, descriptor}
           IN /\ generatedFiles'.present
              /\ "/" \notin Range(name)
              /\ image # descriptor
              /\ DOMAIN generatedFiles'.files = kept \cup {image, descriptor}
              /\ generatedFiles'.files[image] = toolCall.image
              /\ generatedFiles'.files[descriptor] \in PlistTexts
              /\ \A q \in kept : generatedFiles'.files[q] = FilesOrNone[q]]_vars

\* the paths a step that applies an AI answer writes or deletes
WrittenBy(step, call) ==
    CASE step.op = "text-files" ->
           {step.resp.json.files.items[i].filePath : i \in DOMAIN step.resp.json.files.items}
      [] step.op = "text-single" -> {step.resp.json.filePath.path}
      [] OTHER -> {<<"assets", ".gitkeep">>,
                   <<"assets", Join(SanitizedFileName(call.fileName))>>,
                   <<"assets", Join(PlistFileName(call.fileName))>>}

Settings == modData.settings

\* the canonical zero value of a type tag: false, 0, 0.0, ''
ZeroOf(type) ==
    CASE type = "bool" -> [t |-> "boolean", v |-> <<"f", "a", "l", "s", "e">>]
      [] type \in {"int", "float"} -> [t |-> "number", v |-> <<"0">>]
      [] OTHER -> [t |-> "string", v |-> <<>>]

\* C13 Type change resets the default: a change of a setting's type tag to
\* bool, int, float or string sets that setting's default to false, 0, 0.0 or
\* the empty string and changes nothing else of the configuration.
C13_TypeChangeResetsDefault ==
    [][(last'.op = "handleSettingChange" /\ last'.path[1] = "type")
        => /\ Len(modData'.settings) = Len(Settings)
           /\ \A i \in DOMAIN Settings :
                modData'.settings[i] =
                    IF ToString(Settings[i].id) = last'.path[2]
                    THEN [Settings[i] EXCEPT !.type = last'.content,
                                             !.default = ZeroOf(last'.content)]
                    ELSE Settings[i]
           /\ [modData' EXCEPT !.settings = Settings] = modData]_vars

\* the welcome message setting, whose default was a string, has been made a
\* float with default 0
C13_Witness ==
    /\ last.op = "handleSettingChange"
    /\ last.path = <<"type", "0">>
    /\ last.content = "float"
    /\ \E i \in DOMAIN Settings :
         /\ Settings[i].id = 0
         /\ Settings[i].key = "welcome_message"
         /\ Settings[i].type = "float"
         /\ Settings[i].default = [t |-> "number", v |-> <<"0">>]

\* C14 Default matches type tag: every custom setting of type bool, int, float
\* or string has a default that is a boolean, a number, a number or a string.
C14_DefaultMatchesTypeTag ==
    \A i \in DOMAIN Settings :
        /\ Settings[i].type = "bool" => Settings[i].default.t = "boolean"
        /\ Settings[i].type \in {"int", "float"} => Settings[i].default.t = "number"
        /\ Settings[i].type = "string" => Settings[i].default.t = "string"

\* the position of the last '@' of a token, counted from 0; -1 without one
LastAt(token) ==
    IF \E k \in DOMAIN token : token[k] = "@"
    THEN (CHOOSE k \in DOMAIN token :
            token[k] = "@" /\ \A m \in DOMAIN token : token[m] = "@" => m <= k) - 1
    ELSE -1

\* C15 Dependency-token parser: the manifest has one dependency per non-empty
\* trimmed token, with required = true; a token whose last '@' is not its
\* first character is split there into id and version ('*' for an empty
\* version), any other token is the id with version '*'; neither is empty.
C15_DependencyParser ==
    (last.op = "effect" /\ generatedFiles.present)
        => LET tokens == Tokens(modData.dependencies)
               deps == Dependencies(modData)
           IN /\ Len(deps) = Len(tokens)
              /\ \A i \in DOMAIN tokens :
                    LET token == tokens[i]
                        after == SubSeq(token, LastAt(token) + 2, Len(token))
                    IN /\ deps[i].required = TRUE
                       /\ LastAt(token) > 0
                            => /\ deps[i].id = SubSeq(token, 1, LastAt(token))
                               /\ deps[i].version = IF after = <<>> THEN <<"*">> ELSE after
                       /\ LastAt(token) <= 0
                            => /\ deps[i].id = token
                               /\ deps[i].version = <<"*">>
                       /\ deps[i].id # <<>>
                       /\ deps[i].version # <<>>

\* the manifest generated for the dependencies text "a@@a": the id is "a@"
C15_Witness ==
    /\ last.op = "effect"
    /\ generatedFiles.present
    /\ modData.dependencies = <<"a", "@", "@", "a">>
    /\ Dependencies(modData) = <<[id |-> <<"a", "@">>, required |-> TRUE, version |-> <<"a">>]>>
    /\ Files[<<"mod.json">>] = generateModJson(modData)

\* C16 Manifest platform map: the keys of the manifest's gd map are exactly the
\* enabled platforms, and each value is the target game version, or '*' when
\* that version is empty.
C16_PlatformMap ==
    (last.op = "effect" /\ generatedFiles.present)
        => /\ DOMAIN Gd(modData)
                = {p \in {"win", "mac", "android", "ios"} : modData.platforms[p]}
           /\ \A p \in DOMAIN Gd(modData) :
                Gd(modData)[p] = IF modData.gdVersion = "" THEN "*" ELSE modData.gdVersion

\* the manifest generated with only iOS enabled and no game version
C16_Witness ==
    /\ last.op = "effect"
    /\ generatedFiles.present
    /\ modData.platforms = [win |-> FALSE, mac |-> FALSE, android |-> FALSE, ios |-> TRUE]
    /\ modData.gdVersion = ""
    /\ DOMAIN Gd(modData) = {"ios"}
    /\ Gd(modData)["ios"] = "*"
    /\ Files[<<"mod.json">>] = generateModJson(modData)

\* C17 Template dispatch: a generated tree has exactly one entry under src/,
\* src/main.cpp, and it is the menu-hook, the quit-hook or the settings stub
\* according to the template choice; the three differ, and the settings stub
\* for an empty settings list holds the 'no settings' fragment and nothing else.
C17_TemplateDispatch ==
    (last.op = "effect" /\ generatedFiles.present)
        => /\ {p \in DOMAIN Files : p[1] = "src"} = {<<"src", "main.cpp">>}
           /\ modData.cppTemplate = "menulayer"
                => Files[<<"src", "main.cpp">>] = generateMenuLayerCpp(modData)
           /\ modData.cppTemplate = "playlayer"
                => Files[<<"src", "main.cpp">>] = generatePlayLayerCpp(modData)
           /\ modData.cppTemplate = "settings"
                => /\ Files[<<"src", "main.cpp">>] = generateSettingsLayerCpp(modData)
                   /\ Settings = <<>>
                        => /\ Len(settingsUiGeneration(modData)) = 1
                           /\ settingsUiGeneration(modData)[1].shape = "no-settings"
           /\ generateMenuLayerCpp(modData) # generatePlayLayerCpp(modData)
           /\ generateMenuLayerCpp(modData) # generateSettingsLayerCpp(modData)
           /\ generatePlayLayerCpp(modData) # generateSettingsLayerCpp(modData)

\* the settings stub generated after the last setting was removed
C17_Witness ==
    /\ last.op = "effect"
    /\ generatedFiles.present
    /\ modData.cppTemplate = "settings"
    /\ Settings = <<>>
    /\ Files[<<"src", "main.cpp">>] = generateSettingsLayerCpp(modData)
    /\ settingsUiGeneration(modData)[1].shape = "no-settings"

\* the fragment shape of a type tag
ShapeOf(type) ==
    CASE type = "bool" -> "toggle"
      [] type = "int" -> "int-input"
      [] type = "float" -> "float-input"
      [] type = "string" -> "text-input"
      [] OTHER -> "none"

\* C18 Settings-variant fragments: the settings stub generated for n >= 1
\* settings has n fragments, the i-th bound to the i-th setting's key with the
\* shape of its type tag, and its menu hook is conditional on the key of the
\* first bool setting if there is one and unconditional otherwise.
C18_SettingsFragments ==
    (/\ last.op = "effect"
     /\ generatedFiles.present
     /\ modData.cppTemplate = "settings"
     /\ Len(Settings) >= 1)
        => LET fragments == settingsUiGeneration(modData)
               bools == {i \in DOMAIN Settings : Settings[i].type = "bool"}
               hook == menuLayerModification(modData)
           IN /\ Len(fragments) = Len(Settings)
              /\ \A i \in DOMAIN Settings :
                    i \in DOMAIN fragments
                        => /\ fragments[i].key = Settings[i].key
                           /\ fragments[i].shape = ShapeOf(Settings[i].type)
              /\ hook.conditional <=> bools # {}
              /\ bools # {}
                    => hook.key = Settings[CHOOSE i \in bools : \A j \in bools : i <= j].key

\* the previous store without everything but its kept asset entries
OnlyAssets(store) ==
    [present |-> store.present,
     files |-> [p \in {q \in DOMAIN store.files : ExtraAsset(q)} |-> store.files[p]]]

\* C19 Determinism: the tree a regeneration writes is the generator's result
\* for the configuration, the kept asset entries of the previous tree and the
\* calendar year; nothing else of the previous tree or of the page has a part
\* in it, so two runs that agree on these three write the same tree.
C19_Determinism ==
    [][(last'.op = "effect" /\ AllRequiredFilled(modData))
        => /\ generatedFiles'.present
           /\ generatedFiles'.files = generateFiles(modData, OnlyAssets(generatedFiles))
           /\ generatedFiles'.files[<<"LICENSE">>] = generateLicense(modData)]_vars

\* a tree regenerated in the next year over a store in which LICENSE and a
\* file under docs/ had been written by hand: only the asset is kept
C19_Witness ==
    /\ last.op = "effect"
    /\ generatedFiles.present
    /\ year = FirstYear + 1
    /\ <<"assets", "extra.png">> \in DOMAIN Files
    /\ <<"docs", "UNLICENSE">> \notin DOMAIN Files
    /\ Files[<<"LICENSE">>] = generateLicense(modData)

\* the path has one of the text extensions, or its file name is LICENSE or
\* .gitkeep
NamedAsText(path) ==
    LET name == Spell(path[Len(path)]) IN
    \/ \E ext \in {<<".", "j", "s", "o", "n">>, <<".", "t", "x", "t">>, <<".", "c", "p", "p">>,
                   <<".", "m", "d">>, <<".", "y", "m", "l">>,
                   <<".", "g", "i", "t", "i", "g", "n", "o", "r", "e">>,
                   <<".", "p", "l", "i", "s", "t">>} :
          /\ Len(name) >= Len(ext)
          /\ SubSeq(name, Len(name) - Len(ext) + 1, Len(name)) = ext
    \/ path[Len(path)] \in {"LICENSE", ".gitkeep"}

\* C20 Archive classification: an entry of the archive is written as text
\* exactly when its path has one of the text extensions or its file name is
\* LICENSE or .gitkeep; every other entry is written as base64-decoded binary.
C20_ArchiveClassification ==
    zip.made => \A p \in DOMAIN zip.entries : zip.entries[p].base64 <=> ~NamedAsText(p)

----------------------------------------------------------------------------

\* lowercase-segment(.lowercase-segment)+ : the pieces between the dots are
\* at least two, none is empty, and each is made of a-z, 0-9 and '-'
PatternHolds(cs) ==
    LET segments == Split(cs, ".") IN
    /\ Len(segments) >= 2
    /\ \A i \in DOMAIN segments :
          /\ segments[i] # <<>>
          /\ \A j \in DOMAIN segments[i] :
                segments[i][j] \in Range(LowerCase) \cup Digits \cup {"-"}

----------------------------------------------------------------------------

\* the selection effect has run on the store as it is now
SelectionSettled ==
    \/ last.op = "onFileSelect"
    \/ last.op = "effect" /\ last.runs >= 2

\* C22: once the selection effect has run on a present, non-empty store the
\* selected path is a key of it; a click on a file of the explorer leaves that
\* file selected; and any other step changes the selection only if no file
\* was selected or the selected path was not a key of the store the effect
\* saw, never because the content of the selected entry is the empty string.
C22_ActiveFile ==
    [][/\ (SelectionSettled' /\ generatedFiles'.present /\ DOMAIN generatedFiles'.files # {})
            => selectedFile' \in DOMAIN generatedFiles'.files
       /\ last'.op = "onFileSelect" => selectedFile' = last'.path
       /\ (last'.op # "onFileSelect" /\ selectedFile' # selectedFile)
            => \/ selectedFile = <<>>
               \/ ~generatedFiles.present
               \/ selectedFile \notin DOMAIN generatedFiles.files]_vars

----------------------------------------------------------------------------

\* C23: after the change that completes the configuration, with no further
\* event, the regeneration effect stops being due: from some state on no run
\* of it is pending.
C23_RegenerationSettles == <>[](effect = "idle")

----------------------------------------------------------------------------

\* C24: a run of the regeneration on the tree that the run before it wrote,
\* for the same complete configuration, writes a tree with the same keys and
\* the same contents.
C24_RegenerateIdempotent ==
    [][(last.op = "effect" /\ last'.op = "effect" /\ RequiredComplete(modData))
          => generatedFiles' = generatedFiles]_vars

\* the second run in a row, on a tree that holds a kept asset
C24_Witness ==
    /\ last.op = "effect" /\ last.runs = 2
    /\ RequiredComplete(modData)
    /\ generatedFiles.present
    /\ \E path \in DOMAIN Files : IsKeptAsset(path)

----------------------------------------------------------------------------

\* the steps that may write a tree where there was none: the regeneration
\* and the AI mutation paths
BuildsFromAbsent == {"effect", "plistArrives", "text-files", "text-single"}

\* C25: a manual edit made while the store is absent leaves it absent, and
\* a step that takes the store from absent to present is never a manual edit
\* (it is the regeneration or one of the AI mutation paths).
C25_ManualEditNeverCreatesStore ==
    [][/\ (last'.op = "handleFileContentChange" /\ ~generatedFiles.present)
            => ~generatedFiles'.present
       /\ (~generatedFiles.present /\ generatedFiles'.present)
            => last'.op \in BuildsFromAbsent]_vars

\* a manual edit was made on an absent store, with a required field empty
C25_Witness ==
    /\ last.op = "handleFileContentChange" /\ last.content = "edited"
    /\ ~RequiredComplete(modData)
    /\ ~generatedFiles.present

----------------------------------------------------------------------------

\* C26: when the read of an uploaded logo completes, the configuration is
\* the one of that moment with the new logo: every field edited since the
\* upload started keeps its edited value.
C26_UploadKeepsEdits ==
    [][last'.op = "onloadend" => modData' = [modData EXCEPT !.logo = reader.result]]_vars

----------------------------------------------------------------------------

\* C27: under "Add Setting" and the remove buttons alone the keys of the
\* custom settings are pairwise distinct, and the settings object of the
\* manifest has one member per custom setting.
C27_SettingKeysUnique ==
    /\ \A i, j \in DOMAIN Settings : i # j => Settings[i].key # Settings[j].key
    /\ Len(ModJsonSettings(<<>>, Settings)) = Len(Settings)

----------------------------------------------------------------------------

\* C28: in the archive, an entry whose path does not end in .png (the editor
\* shows it as editable text) is written as text, not base64-decoded; only
\* entries the editor shows as images are written as binary.
C28_EditorAndArchiveAgree ==
    zip.made =>
        \A path \in DOMAIN zip.entries :
            /\ ~isImageFile(path) => ~zip.entries[path].base64
            /\ zip.entries[path].base64 => isImageFile(path)

----------------------------------------------------------------------------

\* the path of the code stub and the directory of the assets in a tree
StubPath == <<"src", "main.cpp">>
AssetDirectories(files) == {<<path[1]>> : path \in {q \in DOMAIN files : StartsWithAssets(q)}}

\* C29: in every tree the regeneration wrote, the build script is the one
\* generated for the configuration, every path it lists under SOURCES is a
\* key of the tree, the code stub is among them, and what it lists under
\* RESOURCES is the asset directory of the tree.
C29_BuildScriptCoherent ==
    (last.op = "effect" /\ generatedFiles.present) =>
        /\ <<"CMakeLists.txt">> \in DOMAIN Files
        /\ Files[<<"CMakeLists.txt">>] = generateCMakeLists(modData)
        /\ \A i \in DOMAIN CMakeSources : CMakeSources[i] \in DOMAIN Files
        /\ StubPath \in DOMAIN Files /\ StubPath \in Range(CMakeSources)
        /\ Range(CMakeResources) = AssetDirectories(Files)

----------------------------------------------------------------------------

\* C30: once the effects of the last change have run, and with no download
\* in progress, the download button is enabled exactly when the store is
\* present, that is, when identifier, name and developer are non-empty,
\* whether or not the identifier hint is shown.
C30_DownloadFollowsStore ==
    (Ready /\ ~isDownloading) =>
        /\ generatedFiles.present <=> AllRequiredFilled(modData)
        /\ DownloadEnabled <=> generatedFiles.present

====
